---- MODULE Spec2Model ----
(***************************************************************************)
(* A model of internal/verify/validate.go: the field validators of the     *)
(* provider and the two diagnostic composition helpers.                    *)
(*                                                                         *)
(* Every validator is a pure function of (value, key).  A call is modelled *)
(* as a small state machine: the initial state fixes the function called   *)
(* and its arguments, the actions are the steps of its body.  Go strings   *)
(* are sequences of one-character strings (bytes), so that the parsers and *)
(* the regular expressions are computed on the text itself.                *)
(***************************************************************************)
EXTENDS Integers, Sequences, FiniteSets, TLC

VARIABLES
    fn,         \* the function whose call is modelled
    arg,        \* its value argument (v, i or cidr)
    key,        \* its key argument k
    fs,         \* its variadic function arguments (validators, ARN checks)
    threshold,  \* the threshold of FloatGreaterThan
    pc,         \* the position of the call in the function body
    idx,        \* the range index of the loop over fs
    calls,      \* the indices of fs invoked so far, in invocation order
    ws,         \* the warnings return value
    errors,     \* the errors return value
    results,    \* the diag.Diagnostics return value
    parsedARN,  \* the local parsedARN of ValidARNCheck
    err,        \* the error return value of the Validate... functions
    panicked    \* TRUE once a failed type assertion has panicked

vars == <<fn, arg, key, fs, threshold, pc, idx, calls, ws, errors, results, parsedARN, err, panicked>>

\* ------------------------------------------------------------- bounds

\* The longest list of validators handed to ValidAllDiag / ValidAnyDiag.
MaxValidators == 3
\* The most diagnostics one validator returns.
MaxDiags == 2

\* ------------------------------------------------------------ helpers

Nil == "nil"
\* A CIDR text that holds no "/", and the nil error.
NoCIDR == [form |-> "none", addr |-> <<>>, plen |-> 0]
NoError == [msg |-> "nil", hint |-> NoCIDR]
NoARN == [Partition |-> <<>>, Service |-> <<>>, Region |-> <<>>, AccountID |-> <<>>, Resource |-> <<>>]

RECURSIVE SeqsUpTo(_, _)
\* All sequences over S of length at most n.
SeqsUpTo(S, n) ==
    IF n = 0 THEN {<<>>}
    ELSE LET shorter == SeqsUpTo(S, n - 1)
         IN  shorter \cup {Append(s, x) : s \in {t \in shorter : Len(t) = n - 1}, x \in S}

RECURSIVE Concat(_)
\* The concatenation of a sequence of sequences.
Concat(ss) == IF ss = <<>> THEN <<>> ELSE Head(ss) \o Concat(Tail(ss))

RECURSIVE SumLen(_)
\* The sum of the lengths of a sequence of sequences.
SumLen(ss) == IF ss = <<>> THEN 0 ELSE Len(Head(ss)) + SumLen(Tail(ss))

\* ------------------------------------------- ValidAllDiag / ValidAnyDiag

\* A validator is represented by the diagnostics it returns for the one
\* input (i, path) of the call: validator j returns n diagnostics, each
\* tagged with j and its position, so that order and origin are visible.
DiagsOf(j, n) == [k \in 1..n |-> <<j, k>>]

RECURSIVE ValidatorLists(_)
ValidatorLists(len) ==
    IF len = 0 THEN {<<>>}
    ELSE LET shorter == ValidatorLists(len - 1)
         IN  shorter \cup
             {Append(s, DiagsOf(len, n)) : s \in {t \in shorter : Len(t) = len - 1},
                                           n \in 0..MaxDiags}

DiagInit ==
    /\ fn \in {"ValidAllDiag", "ValidAnyDiag"}
    /\ fs \in ValidatorLists(MaxValidators)
    /\ arg = Nil /\ key = Nil
    /\ pc = "loop"
    /\ idx = 1
    /\ calls = <<>>
    /\ results = <<>>
    /\ ws = <<>> /\ errors = <<>> /\ parsedARN = NoARN /\ err = NoError /\ threshold = 0
    /\ panicked = FALSE

DiagUnchanged == UNCHANGED <<fn, arg, key, fs, threshold, ws, errors, parsedARN, err, panicked>>

\* ValidAllDiag, one iteration: results = append(results, validator(i, path)...)
AllDiagStepStopOnFailure ==
    /\ fn = "ValidAllDiag" /\ pc = "loop" /\ idx <= Len(fs)
    /\ calls' = Append(calls, idx)
    /\ results' = results \o fs[idx]
    /\ IF fs[idx] # <<>> THEN pc' = "done" /\ idx' = idx
                         ELSE pc' = pc /\ idx' = idx + 1
    /\ DiagUnchanged

AllDiagStep ==
    /\ fn = "ValidAllDiag" /\ pc = "loop" /\ idx <= Len(fs)
    /\ calls' = Append(calls, idx)
    /\ results' = results \o fs[idx]
    /\ idx' = idx + 1
    /\ pc' = pc
    /\ DiagUnchanged

\* ValidAllDiag, after the loop: return results
AllDiagReturn ==
    /\ fn = "ValidAllDiag" /\ pc = "loop" /\ idx > Len(fs)
    /\ pc' = "done"
    /\ UNCHANGED <<idx, calls, results>>
    /\ DiagUnchanged

\* ValidAnyDiag, an iteration whose validator returns no diagnostics:
\* return diag.Diagnostics{}
AnyDiagSucceedKeepsResults ==
    /\ fn = "ValidAnyDiag" /\ pc = "loop" /\ idx <= Len(fs)
    /\ fs[idx] = <<>>
    /\ calls' = Append(calls, idx)
    /\ results' = results
    /\ pc' = "done"
    /\ idx' = idx
    /\ DiagUnchanged

AnyDiagSucceed ==
    /\ fn = "ValidAnyDiag" /\ pc = "loop" /\ idx <= Len(fs)
    /\ fs[idx] = <<>>
    /\ calls' = Append(calls, idx)
    /\ results' = <<>>
    /\ pc' = "done"
    /\ idx' = idx
    /\ DiagUnchanged

\* ValidAnyDiag, an iteration whose validator returns diagnostics:
\* results = append(results, diags...)
AnyDiagFail ==
    /\ fn = "ValidAnyDiag" /\ pc = "loop" /\ idx <= Len(fs)
    /\ fs[idx] # <<>>
    /\ calls' = Append(calls, idx)
    /\ results' = results \o fs[idx]
    /\ idx' = idx + 1
    /\ pc' = pc
    /\ DiagUnchanged

\* ValidAnyDiag, after the loop: return results
AnyDiagReturnRequiresSuccess ==
    /\ fn = "ValidAnyDiag" /\ pc = "loop" /\ idx > Len(fs)
    /\ pc' = "done"
    /\ results' = IF results = <<>> THEN <<<<0, 1>>>> ELSE results
    /\ UNCHANGED <<idx, calls>>
    /\ DiagUnchanged

AnyDiagReturn ==
    /\ fn = "ValidAnyDiag" /\ pc = "loop" /\ idx > Len(fs)
    /\ pc' = "done"
    /\ UNCHANGED <<idx, calls, results>>
    /\ DiagUnchanged

DiagNext ==
    \/ AllDiagStep
    \/ AllDiagReturn
    \/ AnyDiagSucceed
    \/ AnyDiagFail
    \/ AnyDiagReturn

SpecDiag == DiagInit /\ [][DiagNext]_vars

\* The indices of the validators that return no diagnostics.
Succeeding == {j \in 1..Len(fs) : fs[j] = <<>>}
FirstSucceeding == CHOOSE j \in Succeeding : \A m \in Succeeding : j <= m

\* C1: ValidAnyDiag: if some validator returns zero diagnostics the result
\* is empty and the validators invoked are exactly those up to and
\* including the first succeeding one, each once and in order; if every
\* validator returns a diagnostic the result is the concatenation of all
\* their diagnostics in validator order.
C1_AnyDiag ==
    (fn = "ValidAnyDiag" /\ pc = "done") =>
        IF Succeeding # {}
        THEN /\ results = <<>>
             /\ calls = [j \in 1..FirstSucceeding |-> j]
        ELSE /\ results = Concat(fs)
             /\ calls = [j \in 1..Len(fs) |-> j]

\* C1 witness: a failing validator ran first (its diagnostics were
\* collected), a later one succeeded, and a further one was never invoked.
C1_Witness ==
    /\ fn = "ValidAnyDiag" /\ pc = "done"
    /\ Len(fs) = 3 /\ fs[1] # <<>> /\ fs[2] = <<>>
    /\ results = <<>> /\ calls = <<1, 2>>

\* C2: ValidAllDiag invokes every validator exactly once, in order, also
\* after an earlier one produced diagnostics, and returns the concatenation
\* in validator order of what each produced; while it runs, the validators
\* invoked so far are a prefix of the list.
C2_AllDiag ==
    fn = "ValidAllDiag" =>
        /\ calls = [j \in 1..(idx - 1) |-> j]
        /\ results = Concat(SubSeq(fs, 1, idx - 1))
        /\ pc = "done" =>
              /\ calls = [j \in 1..Len(fs) |-> j]
              /\ results = Concat(fs)
              /\ Len(results) = SumLen(fs)

\* C2 witness: the first validator failed and the later ones still ran.
C2_Witness ==
    /\ fn = "ValidAllDiag" /\ pc = "done"
    /\ Len(fs) = 3 /\ fs[1] # <<>> /\ fs[2] = <<>> /\ fs[3] # <<>>
    /\ calls = <<1, 2, 3>>
    /\ Len(results) = Len(fs[1]) + Len(fs[3])

\* C10: built from an empty list of validators, ValidAnyDiag and
\* ValidAllDiag both return zero diagnostics and invoke nothing.
C10_EmptyList ==
    (fn \in {"ValidAnyDiag", "ValidAllDiag"} /\ fs = <<>> /\ pc = "done") =>
        results = <<>> /\ calls = <<>>

\* C10 witness: ValidAnyDiag returned from a call with no validators.
C10_Witness ==
    fn = "ValidAnyDiag" /\ fs = <<>> /\ pc = "done" /\ results = <<>>

\* ------------------------------------------------------ Go strings

Lower == {"a", "b", "c", "d", "e", "f", "g", "h", "i", "j", "k", "l", "m",
          "n", "o", "p", "q", "r", "s", "t", "u", "v", "w", "x", "y", "z"}
Upper == {"A", "B", "C", "D", "E", "F", "G", "H", "I", "J", "K", "L", "M",
          "N", "O", "P", "Q", "R", "S", "T", "U", "V", "W", "X", "Y", "Z"}
Digit == {"0", "1", "2", "3", "4", "5", "6", "7", "8", "9"}

\* A value of type interface{} carries its dynamic type.
Str(s) == [type |-> "string", val |-> s]
IsString(v) == v.type = "string"

\* strings.HasPrefix(s, p)
HasPrefix(s, p) == Len(s) >= Len(p) /\ SubSeq(s, 1, Len(p)) = p
\* strings.HasSuffix(s, p)
HasSuffix(s, p) == Len(s) >= Len(p) /\ SubSeq(s, Len(s) - Len(p) + 1, Len(s)) = p

\* strings.Index(s, c) for a one-byte separator, 1-based; 0 when absent.
IndexByte(s, c) ==
    IF \E i \in 1..Len(s) : s[i] = c
    THEN CHOOSE i \in 1..Len(s) : s[i] = c /\ \A j \in 1..(i - 1) : s[j] # c
    ELSE 0

RECURSIVE SplitN(_, _, _)
\* strings.SplitN(s, sep, n) for n > 0: at most n substrings, the last one
\* the unsplit remainder.
SplitN(s, sep, n) ==
    LET i == IndexByte(s, sep)
    IN  IF n <= 1 \/ i = 0 THEN <<s>>
        ELSE <<SubSeq(s, 1, i - 1)>> \o SplitN(SubSeq(s, i + 1, Len(s)), sep, n - 1)

RECURSIVE Join(_, _)
\* strings.Join(parts, sep)
Join(parts, sep) ==
    IF parts = <<>> THEN <<>>
    ELSE IF Len(parts) = 1 THEN parts[1]
    ELSE parts[1] \o sep \o Join(Tail(parts), sep)

\* The length of the longest prefix of s made of characters of set C.
RunLen(s, C) ==
    IF \E i \in 1..Len(s) : s[i] \notin C
    THEN (CHOOSE i \in 1..Len(s) : s[i] \notin C /\ \A j \in 1..(i - 1) : s[j] \in C) - 1
    ELSE Len(s)

RECURSIVE DashGroups(_)
\* s matches (-[a-z]+)*, anchored at both ends.
DashGroups(s) ==
    \/ s = <<>>
    \/ /\ s[1] = "-"
       /\ LET n == RunLen(Tail(s), Lower)
          IN  n >= 1 /\ DashGroups(SubSeq(s, n + 2, Len(s)))

\* ----------------------------------------------------- ValidARNCheck

\* partitionRegexp: ^aws(-[a-z]+)*$
partitionRegexp(s) ==
    /\ HasPrefix(s, <<"a", "w", "s">>)
    /\ DashGroups(SubSeq(s, 4, Len(s)))

\* regionRegexp: ^[a-z]{2}(-[a-z]+)+-\d$
regionRegexp(s) ==
    /\ Len(s) >= 6
    /\ s[1] \in Lower /\ s[2] \in Lower
    /\ s[Len(s) - 1] = "-" /\ s[Len(s)] \in Digit
    /\ LET mid == SubSeq(s, 3, Len(s) - 2)
       IN  mid # <<>> /\ DashGroups(mid)

\* accountIDRegexp: ^(aws|aws-managed|third-party|\d{12})$
accountIDRegexp(s) ==
    \/ s = <<"a", "w", "s">>
    \/ s = <<"a", "w", "s", "-", "m", "a", "n", "a", "g", "e", "d">>
    \/ s = <<"t", "h", "i", "r", "d", "-", "p", "a", "r", "t", "y">>
    \/ Len(s) = 12 /\ \A i \in 1..12 : s[i] \in Digit

\* arn.Parse of the AWS SDK: the string must start with "arn:" and split
\* on ":" into six sections, the sixth being the whole remainder.
ArnParse(s) ==
    LET sections == SplitN(s, ":", 6)
    IN  IF ~HasPrefix(s, <<"a", "r", "n", ":">>)
        THEN [ok |-> FALSE, arn |-> NoARN]
        ELSE IF Len(sections) # 6
        THEN [ok |-> FALSE, arn |-> NoARN]
        ELSE [ok |-> TRUE,
              arn |-> [Partition |-> sections[2], Service |-> sections[3],
                       Region |-> sections[4], AccountID |-> sections[5],
                       Resource |-> sections[6]]]

\* The four structural checks of ValidARNCheck, each appending to errors.
PartitionErrors(a) ==
    IF a.Partition = <<>> THEN <<"missing partition value">>
    ELSE IF ~partitionRegexp(a.Partition) THEN <<"invalid partition value">>
    ELSE <<>>

RegionErrors(a) ==
    IF a.Region # <<>> /\ ~regionRegexp(a.Region) THEN <<"invalid region value">> ELSE <<>>

AccountErrors(a) ==
    IF a.AccountID # <<>> /\ ~accountIDRegexp(a.AccountID)
    THEN <<"invalid account ID value">> ELSE <<>>

ResourceErrors(a) ==
    IF a.Resource = <<>> THEN <<"missing resource value">> ELSE <<>>

\* The structural checks as an else-if chain: only the first failure reports.
StructuralErrorsFirstOnly(a) ==
    LET all == PartitionErrors(a) \o RegionErrors(a) \o AccountErrors(a) \o ResourceErrors(a)
    IN  IF all = <<>> THEN <<>> ELSE <<Head(all)>>

StructuralErrors(a) ==
    PartitionErrors(a) \o RegionErrors(a) \o AccountErrors(a) \o ResourceErrors(a)


\* The longest list of secondary checks handed to ValidARNCheck.
MaxChecks == 2

\* A value that is not a string.
NotAString == [type |-> "int", val |-> 42]

\* Sections from which the ARN texts of the model are joined.
ArnPrefixes == {<<"a", "r", "n">>, <<"x", "r", "n">>}
ArnPartitions == {<<>>, <<"a", "w", "s">>, <<"a", "w", "s", "-", "c", "n">>, <<"A", "W", "S">>}
ArnServices == {<<"s", "3">>}
ArnRegions == {<<>>, <<"u", "s", "-", "e", "a", "s", "t", "-", "1">>,
               <<"u", "s", "e", "a", "s", "t", "1">>}
ArnAccounts == {<<>>, <<"1", "2", "3", "4", "5", "6", "7", "8", "9", "0", "1", "2">>,
                <<"1", "2", "3", "4", "5">>, <<"a", "w", "s">>}
ArnResources == {<<>>, <<"k", "e", "y">>, <<"a", ":", "b">>}

\* The texts handed to ValidARNCheck: one to six sections joined by ":",
\* the empty string, and a text with no colon at all.
ARNTexts ==
    {<<>>, <<"n", "o", "t", "-", "a", "n", "-", "a", "r", "n">>} \cup
    {Join(SubSeq(<<p, pa, sv, re, ac, rs>>, 1, n), <<":">>) :
        p \in ArnPrefixes, pa \in ArnPartitions, sv \in ArnServices,
        re \in ArnRegions, ac \in ArnAccounts, rs \in ArnResources, n \in 1..6}

ARNValues == {Str(s) : s \in ARNTexts} \cup {NotAString}

\* A secondary check is represented by the (warnings, errors) it returns for
\* the call: check j returns nw warnings and ne errors, tagged with j.
CheckOf(j, nw, ne) ==
    [w |-> [k \in 1..nw |-> <<"warning", j>>], e |-> [k \in 1..ne |-> <<"error", j>>]]

RECURSIVE CheckLists(_)
CheckLists(len) ==
    IF len = 0 THEN {<<>>}
    ELSE LET shorter == CheckLists(len - 1)
         IN  shorter \cup
             {Append(s, CheckOf(len, nw, ne)) : s \in {t \in shorter : Len(t) = len - 1},
                                                nw \in 0..1, ne \in 0..1}

ARNInit ==
    /\ fn = "ValidARNCheck"
    /\ arg \in ARNValues
    /\ key = <<"a", "r", "n">>
    /\ fs \in CheckLists(MaxChecks)
    /\ pc = "start"
    /\ idx = 1
    /\ calls = <<>>
    /\ results = <<>>
    /\ ws = <<>> /\ errors = <<>> /\ parsedARN = NoARN /\ err = NoError /\ threshold = 0
    /\ panicked = FALSE

ARNUnchanged == UNCHANGED <<fn, arg, key, fs, threshold, results, err, panicked>>

\* value, ok := v.(string); if !ok { one error; return }
ARNNotString ==
    /\ fn = "ValidARNCheck" /\ pc = "start"
    /\ ~IsString(arg)
    /\ errors' = Append(errors, "expected type to be string")
    /\ pc' = "done"
    /\ UNCHANGED <<idx, calls, ws, parsedARN>>
    /\ ARNUnchanged

\* if value == "" { return }
ARNEmpty ==
    /\ fn = "ValidARNCheck" /\ pc = "start"
    /\ IsString(arg) /\ arg.val = <<>>
    /\ pc' = "done"
    /\ UNCHANGED <<idx, calls, ws, errors, parsedARN>>
    /\ ARNUnchanged

\* parsedARN, err := arn.Parse(value); if err != nil { one error; return }
ARNParseError ==
    /\ fn = "ValidARNCheck" /\ pc = "start"
    /\ IsString(arg) /\ arg.val # <<>>
    /\ ~ArnParse(arg.val).ok
    /\ errors' = Append(errors, "is an invalid ARN")
    /\ pc' = "done"
    /\ UNCHANGED <<idx, calls, ws, parsedARN>>
    /\ ARNUnchanged

\* The value parses: the four structural checks, then on to the loop over f.
ARNStructuralStopOnError ==
    /\ fn = "ValidARNCheck" /\ pc = "start"
    /\ IsString(arg) /\ arg.val # <<>>
    /\ ArnParse(arg.val).ok
    /\ parsedARN' = ArnParse(arg.val).arn
    /\ errors' = errors \o StructuralErrors(parsedARN')
    /\ pc' = IF errors' # <<>> THEN "done" ELSE "checks"
    /\ UNCHANGED <<idx, calls, ws>>
    /\ ARNUnchanged

ARNStructural ==
    /\ fn = "ValidARNCheck" /\ pc = "start"
    /\ IsString(arg) /\ arg.val # <<>>
    /\ ArnParse(arg.val).ok
    /\ parsedARN' = ArnParse(arg.val).arn
    /\ errors' = errors \o StructuralErrors(parsedARN')
    /\ pc' = "checks"
    /\ UNCHANGED <<idx, calls, ws>>
    /\ ARNUnchanged

\* for _, f := range f { w, e := f(v, k, parsedARN); append both }
ARNCheckFunc ==
    /\ fn = "ValidARNCheck" /\ pc = "checks" /\ idx <= Len(fs)
    /\ calls' = Append(calls, idx)
    /\ ws' = ws \o fs[idx].w
    /\ errors' = errors \o fs[idx].e
    /\ idx' = idx + 1
    /\ pc' = pc
    /\ UNCHANGED parsedARN
    /\ ARNUnchanged

\* return ws, errors
ARNReturn ==
    /\ fn = "ValidARNCheck" /\ pc = "checks" /\ idx > Len(fs)
    /\ pc' = "done"
    /\ UNCHANGED <<idx, calls, ws, errors, parsedARN>>
    /\ ARNUnchanged

ARNNext ==
    \/ ARNNotString
    \/ ARNEmpty
    \/ ARNParseError
    \/ ARNStructural
    \/ ARNCheckFunc
    \/ ARNReturn

SpecARN == ARNInit /\ [][ARNNext]_vars

\* The number of failing checks among the four structural checks, as the
\* conditions on the parsed sections.
FailingChecks(a) ==
    (IF a.Partition = <<>> \/ ~partitionRegexp(a.Partition) THEN 1 ELSE 0)
    + (IF a.Region # <<>> /\ ~regionRegexp(a.Region) THEN 1 ELSE 0)
    + (IF a.AccountID # <<>> /\ ~accountIDRegexp(a.AccountID) THEN 1 ELSE 0)
    + (IF a.Resource = <<>> THEN 1 ELSE 0)

\* The value is a non-empty string that parses as an ARN.
ParsesAsARN(v) == IsString(v) /\ v.val # <<>> /\ ArnParse(v.val).ok

\* C3: ValidARNCheck with no secondary checks: the empty string yields no
\* error, a non-empty string that fails ARN parsing yields exactly one, and
\* a string that parses yields as many errors as there are failing checks
\* among the four structural ones.
C3_ARNErrorCount ==
    (fn = "ValidARNCheck" /\ fs = <<>> /\ pc = "done" /\ IsString(arg)) =>
        IF arg.val = <<>> THEN errors = <<>>
        ELSE IF ~ArnParse(arg.val).ok THEN Len(errors) = 1
        ELSE Len(errors) = FailingChecks(ArnParse(arg.val).arn)

\* C3 witness: a malformed region together with a malformed account ID
\* (and nothing else wrong) gave two errors.
C3_Witness ==
    /\ fn = "ValidARNCheck" /\ fs = <<>> /\ pc = "done"
    /\ parsedARN.Partition = <<"a", "w", "s">>
    /\ parsedARN.Region = <<"u", "s", "e", "a", "s", "t", "1">>
    /\ parsedARN.AccountID = <<"1", "2", "3", "4", "5">>
    /\ parsedARN.Resource # <<>>
    /\ errors = <<"invalid region value", "invalid account ID value">>

\* C4: the secondary checks of ValidARNCheck are invoked if and only if the
\* value is a non-empty string that parses as an ARN; then each is invoked
\* exactly once, in the order supplied, after the structural checks and
\* whatever errors these found, and its warnings and errors are appended
\* after the structural errors.
C4_SecondaryChecks ==
    fn = "ValidARNCheck" =>
        /\ calls # <<>> => ParsesAsARN(arg) /\ pc \in {"checks", "done"}
        /\ pc = "checks" =>
              /\ calls = [j \in 1..(idx - 1) |-> j]
              /\ SubSeq(errors, 1, FailingChecks(parsedARN)) = StructuralErrors(parsedARN)
        /\ pc = "done" =>
              IF ParsesAsARN(arg)
              THEN /\ calls = [j \in 1..Len(fs) |-> j]
                   /\ ws = Concat([j \in 1..Len(fs) |-> fs[j].w])
                   /\ errors = StructuralErrors(ArnParse(arg.val).arn)
                                 \o Concat([j \in 1..Len(fs) |-> fs[j].e])
              ELSE calls = <<>> /\ ws = <<>>

\* C4 witness: the structural checks failed and both secondary checks ran.
C4_Witness ==
    /\ fn = "ValidARNCheck" /\ pc = "done"
    /\ Len(fs) = 2 /\ fs[2].e # <<>>
    /\ StructuralErrors(parsedARN) # <<>>
    /\ calls = <<1, 2>>
    /\ Len(errors) > Len(StructuralErrors(parsedARN))


\* ----------------------------------------------------- ValidDuration

\* The longest text handed to ValidDuration.
MaxDurationLen == 5

\* The characters of the texts handed to ValidDuration: the signs, two
\* digits, the decimal point and the letter of the unit "s".  Two letters
\* in a row ("ss") are a unit name time.ParseDuration does not know.
DurationAlphabet == {"-", "+", "0", "5", ".", "s"}

DurationTexts == SeqsUpTo(DurationAlphabet, MaxDurationLen)

\* A time.Duration is counted here in ticks of 100 microseconds, the
\* finest step a text of the alphabet within the length bound can denote
\* (".0005s"); within that bound no value leaves the range of int64, so
\* the overflow exits of time.ParseDuration (each of which returns
\* (0, error) like every other error exit) are not taken.
TicksPerSecond == 10000

\* unitMap of package time, for the unit names over the alphabet.
IsUnitName(u) == u = <<"s">>
UnitTicks(u) == TicksPerSecond

DigitValue(c) ==
    CASE c = "0" -> 0 [] c = "1" -> 1 [] c = "2" -> 2 [] c = "3" -> 3 [] c = "4" -> 4
      [] c = "5" -> 5 [] c = "6" -> 6 [] c = "7" -> 7 [] c = "8" -> 8 [] c = "9" -> 9

RECURSIVE DecimalValue(_)
\* The value of a sequence of decimal digits (0 for the empty sequence).
DecimalValue(ds) ==
    IF ds = <<>> THEN 0
    ELSE 10 * DecimalValue(SubSeq(ds, 1, Len(ds) - 1)) + DigitValue(ds[Len(ds)])

RECURSIVE Pow10(_)
Pow10(n) == IF n = 0 THEN 1 ELSE 10 * Pow10(n - 1)

DurationError == [ok |-> FALSE, d |-> 0]

\* The length of the unit name at the head of s: the characters up to the
\* next "." or digit.
UnitLen(s) ==
    IF \E i \in 1..Len(s) : s[i] \in Digit \cup {"."}
    THEN (CHOOSE i \in 1..Len(s) : /\ s[i] \in Digit \cup {"."}
                                   /\ \A j \in 1..(i - 1) : s[j] \notin Digit \cup {"."}) - 1
    ELSE Len(s)

RECURSIVE ParseDurationTerms(_, _)
\* The loop of time.ParseDuration over ([0-9]*(\.[0-9]*)?[a-z]+)+, with d
\* the ticks summed so far.
ParseDurationTerms(s, d) ==
    IF s = <<>> THEN [ok |-> TRUE, d |-> d]
    ELSE IF ~(s[1] = "." \/ s[1] \in Digit) THEN DurationError
    ELSE
      LET n     == RunLen(s, Digit)                    \* leadingInt
          v     == DecimalValue(SubSeq(s, 1, n))
          s1    == SubSeq(s, n + 1, Len(s))
          pre   == n > 0
          dot   == s1 # <<>> /\ s1[1] = "."
          s2    == IF dot THEN Tail(s1) ELSE s1
          m     == IF dot THEN RunLen(s2, Digit) ELSE 0 \* leadingFraction
          f     == DecimalValue(SubSeq(s2, 1, m))
          scale == Pow10(m)
          s3    == SubSeq(s2, m + 1, Len(s2))
          post  == m > 0
          i     == UnitLen(s3)
          u     == SubSeq(s3, 1, i)
      IN  IF ~pre /\ ~post THEN DurationError           \* no digits
          ELSE IF i = 0 THEN DurationError              \* missing unit
          ELSE IF ~IsUnitName(u) THEN DurationError     \* unknown unit
          ELSE ParseDurationTerms(SubSeq(s3, i + 1, Len(s3)),
                                  d + v * UnitTicks(u) + (f * UnitTicks(u)) \div scale)

\* time.ParseDuration: [-+]?([0-9]*(\.[0-9]*)?[a-z]+)+, or "0" alone after
\* the sign.  Every error exit returns the zero Duration.
ParseDuration(orig) ==
    LET signed == orig # <<>> /\ orig[1] \in {"-", "+"}
        neg    == orig # <<>> /\ orig[1] = "-"
        s      == IF signed THEN Tail(orig) ELSE orig
    IN  IF s = <<"0">> THEN [ok |-> TRUE, d |-> 0]
        ELSE IF s = <<>> THEN DurationError
        ELSE LET r == ParseDurationTerms(s, 0)
             IN  IF ~r.ok THEN DurationError
                 ELSE [ok |-> TRUE, d |-> IF neg THEN 0 - r.d ELSE r.d]

ErrCannotParse == "cannot be parsed as a duration"
ErrNotPositive == "must be greater than zero"

\* The body of ValidDuration with the second check written as the message
\* reads: duration <= 0.
ValidDurationErrorsZeroRejected(value) ==
    LET r == ParseDuration(value)
    IN  (IF ~r.ok THEN <<ErrCannotParse>> ELSE <<>>)
        \o (IF r.d <= 0 THEN <<ErrNotPositive>> ELSE <<>>)

\* The body of ValidDuration with the second check made on the text: a
\* leading minus sign.
ValidDurationErrorsSignOfText(value) ==
    LET r == ParseDuration(value)
    IN  (IF ~r.ok THEN <<ErrCannotParse>> ELSE <<>>)
        \o (IF value # <<>> /\ value[1] = "-" THEN <<ErrNotPositive>> ELSE <<>>)

\* The body of ValidDuration after the type assertion: two independent
\* checks, each appending its error.
ValidDurationErrors(value) ==
    LET r == ParseDuration(value)
    IN  (IF ~r.ok THEN <<ErrCannotParse>> ELSE <<>>)
        \o (IF r.d < 0 THEN <<ErrNotPositive>> ELSE <<>>)

LegacyUnchanged == UNCHANGED <<fn, arg, key, fs, threshold, idx, calls, results, parsedARN, err>>

\* value := v.(string) on a value that is not a string: the single-value
\* type assertion panics and the function returns nothing.
AssertStringPanics(f) ==
    /\ fn = f /\ pc = "start"
    /\ ~IsString(arg)
    /\ panicked' = TRUE
    /\ pc' = "panic"
    /\ UNCHANGED <<ws, errors>>
    /\ LegacyUnchanged

ValidDuration ==
    \/ AssertStringPanics("ValidDuration")
    \/ /\ fn = "ValidDuration" /\ pc = "start"
       /\ IsString(arg)
       /\ errors' = errors \o ValidDurationErrors(arg.val)
       /\ pc' = "done"
       /\ UNCHANGED <<ws, panicked>>
       /\ LegacyUnchanged

DurationInit ==
    /\ fn = "ValidDuration"
    /\ arg \in {Str(s) : s \in DurationTexts} \cup {NotAString}
    /\ key = <<"t", "t", "l">>
    /\ fs = <<>>
    /\ pc = "start"
    /\ idx = 1
    /\ calls = <<>>
    /\ results = <<>>
    /\ ws = <<>> /\ errors = <<>> /\ parsedARN = NoARN /\ err = NoError /\ threshold = 0
    /\ panicked = FALSE

SpecDuration == DurationInit /\ [][ValidDuration]_vars

\* The call of ValidDuration on a string has returned.
DurationDone == fn = "ValidDuration" /\ pc = "done" /\ IsString(arg)

\* C6: ValidDuration returns no error exactly when the string parses and
\* the parsed duration is non-negative (zero included); a string parsing to
\* a negative duration returns the "must be greater than zero" error alone,
\* an unparseable string the "cannot be parsed as a duration" error alone.
C6_DurationErrors ==
    DurationDone =>
        LET r == ParseDuration(arg.val)
        IN  /\ errors = <<>> <=> (r.ok /\ r.d >= 0)
            /\ (r.ok /\ r.d < 0) => errors = <<ErrNotPositive>>
            /\ ~r.ok => errors = <<ErrCannotParse>>
            /\ arg.val \in {<<"0", "s">>, <<"0">>, <<"-", "0">>, <<"5", "s">>} => errors = <<>>
            /\ arg.val = <<"-", "5", "s">> => errors = <<ErrNotPositive>>
            /\ arg.val \in {<<"s">>, <<"5">>, <<"-">>, <<>>} => errors = <<ErrCannotParse>>

\* C6 witness: the zero duration "0s" was accepted.
C6_Witness ==
    DurationDone /\ arg.val = <<"0", "s">> /\ ParseDuration(arg.val).d = 0 /\ errors = <<>>

\* C7 as claimed: of the function called, ValidDuration, there is a text
\* for which one call returns the parse error followed by the
\* negative-duration error.
C7_TwoErrorsPossible ==
    fn = "ValidDuration" =>
        \E s \in DurationTexts : ValidDurationErrors(s) = <<ErrCannotParse, ErrNotPositive>>

\* C7 as amended: no call of ValidDuration returns two errors: a failed
\* parse leaves the duration zero, so the negative-duration error is never
\* reported in a call in which the parse error fired.
C7_AtMostOneError ==
    DurationDone =>
        /\ Len(errors) <= 1
        /\ ~ParseDuration(arg.val).ok => errors = <<ErrCannotParse>>

\* C7 witness: a text with a leading minus sign failed to parse and the
\* call returned the parse error alone.
C7_Witness ==
    /\ DurationDone
    /\ arg.val = <<"-", "5">>
    /\ ~ParseDuration(arg.val).ok
    /\ errors = <<ErrCannotParse>>


\* ------------------------------------------------- CIDR validators

\* Addresses are bit sequences of scaled width: an IPv4 address has V4Bits
\* bits (for 4 bytes), an IPv6 address V6ExtraBits more (for 16 bytes).
V4Bits == 2
V6ExtraBits == 2
V6Bits == V6ExtraBits + V4Bits

BitSeqs(n) == [1..n -> {0, 1}]

\* The nil net.IP.
NilIP == <<>>

\* v4InV6Prefix of package net (ten zero bytes, then ff ff): zeros, then
\* a set bit.
v4InV6Prefix == [i \in 1..V6ExtraBits |-> IF i = V6ExtraBits THEN 1 ELSE 0]

\* A CIDR text is represented by what it spells: the notation of the
\* address (dotted IPv4 or colon IPv6), the address and the number after
\* the "/".  NoCIDR is a text without "/" (as is "<nil>").
CIDRTexts ==
    {NoCIDR}
    \cup {[form |-> "v4", addr |-> a, plen |-> n] : a \in BitSeqs(V4Bits), n \in 0..(V4Bits + 1)}
    \cup {[form |-> "v6", addr |-> a, plen |-> n] : a \in BitSeqs(V6Bits), n \in 0..(V6Bits + 1)}

\* net.IP.To4: the 4-byte form of an address, or nil.
To4(ip) ==
    IF Len(ip) = V4Bits THEN ip
    ELSE IF Len(ip) = V6Bits /\ SubSeq(ip, 1, V6ExtraBits) = v4InV6Prefix
    THEN SubSeq(ip, V6ExtraBits + 1, V6Bits)
    ELSE NilIP

\* net.CIDRMask(ones, bits)
CIDRMask(ones, bits) == [i \in 1..bits |-> IF i <= ones THEN 1 ELSE 0]

allFF(m) == \A i \in 1..Len(m) : m[i] = 1

\* net.IP.Mask
Mask(ip, mask) ==
    LET m1 == IF Len(mask) = V6Bits /\ Len(ip) = V4Bits /\ allFF(SubSeq(mask, 1, V6ExtraBits))
              THEN SubSeq(mask, V6ExtraBits + 1, V6Bits) ELSE mask
        p1 == IF Len(m1) = V4Bits /\ Len(ip) = V6Bits
                 /\ SubSeq(ip, 1, V6ExtraBits) = v4InV6Prefix
              THEN SubSeq(ip, V6ExtraBits + 1, V6Bits) ELSE ip
    IN  IF Len(p1) # Len(m1) THEN NilIP
        ELSE [i \in 1..Len(p1) |-> p1[i] * m1[i]]

\* net.ParseCIDR: the address in 16-byte form, and the network (the masked
\* address and the mask, whose length is that of the notation).
ParseCIDR(t) ==
    LET bits   == IF t.form = "v4" THEN V4Bits ELSE V6Bits
        m      == CIDRMask(t.plen, bits)
        addr16 == IF t.form = "v4" THEN v4InV6Prefix \o t.addr ELSE t.addr
    IN  IF t.form = "none" \/ t.plen > bits
        THEN [ok |-> FALSE, ip |-> NilIP, ipnet |-> [IP |-> NilIP, Mask |-> <<>>]]
        ELSE [ok |-> TRUE, ip |-> addr16, ipnet |-> [IP |-> Mask(addr16, m), Mask |-> m]]

\* net.IP.String: dotted when the address has a 4-byte form.
IPString(ip) ==
    IF To4(ip) # NilIP THEN [form |-> "v4", addr |-> To4(ip)]
    ELSE [form |-> "v6", addr |-> ip]

\* The number of leading ones of a mask (simpleMaskLength).
MaskLength(m) == Cardinality({i \in 1..Len(m) : m[i] = 1})

\* net.IPNet.String, through networkNumberAndMask: "<nil>" when address
\* and mask do not fit together.
IPNetString(n) ==
    LET ip == IF To4(n.IP) # NilIP THEN To4(n.IP) ELSE n.IP
        fits == \/ Len(n.Mask) = Len(ip)
                \/ /\ Len(n.Mask) = V6Bits /\ Len(ip) = V4Bits
                   /\ allFF(SubSeq(n.Mask, 1, V6ExtraBits))
        m == IF Len(n.Mask) = V6Bits /\ Len(ip) = V4Bits
             THEN SubSeq(n.Mask, V6ExtraBits + 1, V6Bits) ELSE n.Mask
    IN  IF ip = NilIP \/ ~fits THEN NoCIDR
        ELSE [form |-> IPString(ip).form, addr |-> ip, plen |-> MaskLength(m)]

\* CIDRBlocksEqual of this package: both texts parse, and their addresses
\* and their networks print the same.
CIDRBlocksEqual(cidr1, cidr2) ==
    LET p1 == ParseCIDR(cidr1)
        p2 == ParseCIDR(cidr2)
    IN  /\ p1.ok /\ p2.ok
        /\ IPString(p2.ip) = IPString(p1.ip)
        /\ IPNetString(p2.ipnet) = IPNetString(p1.ipnet)

ErrNotCIDR == "is not a valid CIDR block"
ErrNotIPv4 == "is not a valid IPv4 CIDR block"
ErrNotIPv6 == "is not a valid IPv6 CIDR block"
Error(msg) == [msg |-> msg, hint |-> NoCIDR]

ValidateCIDRBlock(cidr) ==
    LET p == ParseCIDR(cidr)
    IN  IF ~p.ok THEN Error(ErrNotCIDR)
        ELSE IF ~CIDRBlocksEqual(cidr, IPNetString(p.ipnet))
        THEN [msg |-> "is not a valid CIDR block; did you mean", hint |-> IPNetString(p.ipnet)]
        ELSE NoError

\* ValidateIPv4CIDRBlock with the canonical-form comparison made before
\* the address family check.
ValidateIPv4CIDRBlockCanonicalFirst(cidr) ==
    LET p == ParseCIDR(cidr)
    IN  IF ~p.ok THEN Error(ErrNotCIDR)
        ELSE IF ~CIDRBlocksEqual(cidr, IPNetString(p.ipnet))
        THEN [msg |-> "is not a valid IPv4 CIDR block; did you mean", hint |-> IPNetString(p.ipnet)]
        ELSE IF To4(p.ip) = NilIP THEN Error(ErrNotIPv4)
        ELSE NoError

ValidateIPv4CIDRBlock(cidr) ==
    LET p == ParseCIDR(cidr)
    IN  IF ~p.ok THEN Error(ErrNotCIDR)
        ELSE IF To4(p.ip) = NilIP THEN Error(ErrNotIPv4)
        ELSE IF ~CIDRBlocksEqual(cidr, IPNetString(p.ipnet))
        THEN [msg |-> "is not a valid IPv4 CIDR block; did you mean", hint |-> IPNetString(p.ipnet)]
        ELSE NoError

ValidateIPv6CIDRBlock(cidr) ==
    LET p == ParseCIDR(cidr)
    IN  IF ~p.ok THEN Error(ErrNotCIDR)
        ELSE IF To4(p.ip) # NilIP THEN Error(ErrNotIPv6)
        ELSE IF ~CIDRBlocksEqual(cidr, IPNetString(p.ipnet))
        THEN [msg |-> "is not a valid IPv6 CIDR block; did you mean", hint |-> IPNetString(p.ipnet)]
        ELSE NoError

CIDRCalls == {"ValidateCIDRBlock", "ValidateIPv4CIDRBlock", "ValidateIPv6CIDRBlock"}

CIDRInit ==
    /\ fn \in CIDRCalls
    /\ arg \in CIDRTexts
    /\ key = Nil
    /\ fs = <<>>
    /\ pc = "start"
    /\ idx = 1
    /\ calls = <<>>
    /\ results = <<>>
    /\ ws = <<>> /\ errors = <<>> /\ parsedARN = NoARN /\ err = NoError /\ threshold = 0
    /\ panicked = FALSE

CIDRUnchanged ==
    UNCHANGED <<fn, arg, key, fs, threshold, idx, calls, ws, errors, results, parsedARN, panicked>>

CallValidateCIDRBlock ==
    /\ fn = "ValidateCIDRBlock" /\ pc = "start"
    /\ err' = ValidateCIDRBlock(arg)
    /\ pc' = "done"
    /\ CIDRUnchanged

CallValidateIPv4CIDRBlock ==
    /\ fn = "ValidateIPv4CIDRBlock" /\ pc = "start"
    /\ err' = ValidateIPv4CIDRBlock(arg)
    /\ pc' = "done"
    /\ CIDRUnchanged

CallValidateIPv6CIDRBlock ==
    /\ fn = "ValidateIPv6CIDRBlock" /\ pc = "start"
    /\ err' = ValidateIPv6CIDRBlock(arg)
    /\ pc' = "done"
    /\ CIDRUnchanged

CIDRNext ==
    \/ CallValidateCIDRBlock
    \/ CallValidateIPv4CIDRBlock
    \/ CallValidateIPv6CIDRBlock

SpecCIDR == CIDRInit /\ [][CIDRNext]_vars

\* The text is the canonical form of its network.
IsCanonical(cidr) == CIDRBlocksEqual(cidr, IPNetString(ParseCIDR(cidr).ipnet))
\* The text parses and its address has a 4-byte form.
HasV4Form(cidr) == ParseCIDR(cidr).ok /\ To4(ParseCIDR(cidr).ip) # NilIP
\* The text parses and some bit of its address lies outside the network mask.
HostBitsSet(cidr) ==
    /\ ParseCIDR(cidr).ok
    /\ \E i \in 1..Len(cidr.addr) : i > cidr.plen /\ cidr.addr[i] = 1

\* C8: ValidateIPv4CIDRBlock returns the address family error for every
\* parseable CIDR whose address has no 4-byte form, ValidateIPv6CIDRBlock
\* for every parseable CIDR whose address has one, canonical or not; in
\* both the checks are made in the order parse, address family, canonical
\* form, and the first that fails alone determines the error returned.
C8_CIDRCheckOrder ==
    /\ (fn = "ValidateIPv4CIDRBlock" /\ pc = "done") =>
          /\ ~ParseCIDR(arg).ok => err = Error(ErrNotCIDR)
          /\ (ParseCIDR(arg).ok /\ ~HasV4Form(arg)) => err = Error(ErrNotIPv4)
          /\ (HasV4Form(arg) /\ ~IsCanonical(arg)) =>
                err.msg = "is not a valid IPv4 CIDR block; did you mean"
          /\ (HasV4Form(arg) /\ IsCanonical(arg)) => err = NoError
    /\ (fn = "ValidateIPv6CIDRBlock" /\ pc = "done") =>
          /\ ~ParseCIDR(arg).ok => err = Error(ErrNotCIDR)
          /\ HasV4Form(arg) => err = Error(ErrNotIPv6)
          /\ (ParseCIDR(arg).ok /\ ~HasV4Form(arg) /\ ~IsCanonical(arg)) =>
                err.msg = "is not a valid IPv6 CIDR block; did you mean"
          /\ (ParseCIDR(arg).ok /\ ~HasV4Form(arg) /\ IsCanonical(arg)) => err = NoError

\* C8 witness: an IPv6 CIDR with host bits set, which is not the canonical
\* form of its network, was rejected by ValidateIPv4CIDRBlock with the
\* address family error.
C8_Witness ==
    /\ fn = "ValidateIPv4CIDRBlock" /\ pc = "done"
    /\ arg.form = "v6" /\ HostBitsSet(arg) /\ ~IsCanonical(arg)
    /\ err = Error(ErrNotIPv4)


\* ------------------------------------------- ValidLaunchTemplateName

\* The limits of ValidLaunchTemplateName.
MinNameLen == 3
MaxPrefixLen == 99
MaxNameLen == 125

\* The longest text handed to ValidLaunchTemplateName.
LongestName == 127

\* The characters of ^[0-9a-zA-Z()./_\-]+$
NameChars == Digit \cup Lower \cup Upper \cup {"(", ")", ".", "/", "_", "-"}

\* The texts handed to ValidLaunchTemplateName: n bytes, all "a" but for
\* one byte c at the first or the last place.
NameTexts ==
    UNION {{[i \in 1..n |-> IF i = pos THEN c ELSE "a"] :
                c \in {"a", "Z", "0", "/", "-", "!", " "}, pos \in {1, n}} :
           n \in 0..LongestName}

S_prefix == <<"p", "r", "e", "f", "i", "x">>
NameKeys ==
    {<<"n", "a", "m", "e">>, <<"n", "a", "m", "e", "_">> \o S_prefix, S_prefix,
     S_prefix \o <<"_", "i", "d">>, <<"p", "r", "e", "f", "i">>}

ErrNameShort == "cannot be less than 3 characters"
ErrPrefixLong == "cannot be longer than 99 characters, name is limited to 125"
ErrNameLong == "cannot be longer than 125 characters"
ErrNameChars == "can only alphanumeric characters and ()./_- symbols"

nameRegexp(s) == Len(s) >= 1 /\ \A i \in 1..Len(s) : s[i] \in NameChars

\* The body of ValidLaunchTemplateName with one length limit for every key.
ValidLaunchTemplateNameErrorsOneLimit(value, k) ==
    IF Len(value) < MinNameLen THEN <<ErrNameShort>>
    ELSE IF Len(value) > MaxNameLen THEN <<ErrNameLong>>
    ELSE IF ~nameRegexp(value) THEN <<ErrNameChars>>
    ELSE <<>>

\* The body of ValidLaunchTemplateName after the type assertion.
ValidLaunchTemplateNameErrors(value, k) ==
    IF Len(value) < MinNameLen THEN <<ErrNameShort>>
    ELSE IF HasSuffix(k, S_prefix) /\ Len(value) > MaxPrefixLen THEN <<ErrPrefixLong>>
    ELSE IF ~HasSuffix(k, S_prefix) /\ Len(value) > MaxNameLen THEN <<ErrNameLong>>
    ELSE IF ~nameRegexp(value) THEN <<ErrNameChars>>
    ELSE <<>>

ValidLaunchTemplateName ==
    \/ AssertStringPanics("ValidLaunchTemplateName")
    \/ /\ fn = "ValidLaunchTemplateName" /\ pc = "start"
       /\ IsString(arg)
       /\ errors' = errors \o ValidLaunchTemplateNameErrors(arg.val, key)
       /\ pc' = "done"
       /\ UNCHANGED <<ws, panicked>>
       /\ LegacyUnchanged

NameInit ==
    /\ fn = "ValidLaunchTemplateName"
    /\ arg \in {Str(s) : s \in NameTexts} \cup {NotAString}
    /\ key \in NameKeys
    /\ fs = <<>>
    /\ pc = "start"
    /\ idx = 1
    /\ calls = <<>>
    /\ results = <<>>
    /\ ws = <<>> /\ errors = <<>> /\ parsedARN = NoARN /\ err = NoError /\ threshold = 0
    /\ panicked = FALSE

SpecName == NameInit /\ [][ValidLaunchTemplateName]_vars

\* The call has the key of a name prefix.
PrefixKey == HasSuffix(key, S_prefix)
\* The longest value allowed for the key of the call.
NameLimit == IF PrefixKey THEN 99 ELSE 125

\* C9: ValidLaunchTemplateName accepts a value exactly when its length is
\* at least 3, at most 99 for a key ending in "prefix" and at most 125
\* otherwise, and every character is in [0-9a-zA-Z()./_-]; on rejection it
\* returns one error, that of the first failing check in the order: too
\* short, too long for the kind of key, bad characters.
C9_LaunchTemplateName ==
    (fn = "ValidLaunchTemplateName" /\ pc = "done" /\ IsString(arg)) =>
        LET n == Len(arg.val)
            chars == \A i \in 1..n : arg.val[i] \in NameChars
        IN  /\ errors = <<>> <=> (n >= 3 /\ n <= NameLimit /\ chars)
            /\ n < 3 => errors = <<ErrNameShort>>
            /\ (n >= 3 /\ n > NameLimit) =>
                  errors = <<IF PrefixKey THEN ErrPrefixLong ELSE ErrNameLong>>
            /\ (n >= 3 /\ n <= NameLimit /\ ~chars) => errors = <<ErrNameChars>>

\* C9 witness: a value of 100 characters with a bad character was rejected
\* for a prefix key as too long, not for its characters.
C9_Witness ==
    /\ fn = "ValidLaunchTemplateName" /\ pc = "done" /\ IsString(arg)
    /\ PrefixKey /\ Len(arg.val) = 100 /\ arg.val[1] = "!"
    /\ errors = <<ErrPrefixLong>>


\* ------------------------------------- the other legacy validators

RECURSIVE StripZeros(_)
\* A sequence of decimal digits without its leading zeros ("0" is kept).
StripZeros(ds) == IF Len(ds) > 1 /\ ds[1] = "0" THEN StripZeros(Tail(ds)) ELSE ds

\* a > b for two numbers written as decimal digits: 64-bit values are
\* compared on their digits.
DecGreater(a, b) ==
    LET x == StripZeros(a)
        y == StripZeros(b)
    IN  \/ Len(x) > Len(y)
        \/ /\ Len(x) = Len(y)
           /\ \E i \in 1..Len(x) :
                 /\ DigitValue(x[i]) > DigitValue(y[i])
                 /\ \A j \in 1..(i - 1) : x[j] = y[j]

\* 2^63 and 4294967295 in decimal digits.
Cutoff63 == <<"9", "2", "2", "3", "3", "7", "2", "0", "3", "6", "8", "5", "4", "7",
              "7", "5", "8", "0", "8">>
MaxASN == <<"4", "2", "9", "4", "9", "6", "7", "2", "9", "5">>

\* strconv.ParseInt(s, 10, 64): an optional sign and decimal digits, within
\* the range of int64.  The value is its sign and its digits.
ParseInt(s) ==
    LET signed == s # <<>> /\ s[1] \in {"+", "-"}
        neg    == s # <<>> /\ s[1] = "-"
        ds     == IF signed THEN Tail(s) ELSE s
        syntax == ds # <<>> /\ \A i \in 1..Len(ds) : ds[i] \in Digit
        range  == IF neg THEN ~DecGreater(ds, Cutoff63)
                  ELSE DecGreater(Cutoff63, ds)
    IN  IF syntax /\ range
        THEN [ok |-> TRUE, neg |-> neg /\ StripZeros(ds) # <<"0">>, mag |-> StripZeros(ds)]
        ELSE [ok |-> FALSE, neg |-> FALSE, mag |-> <<"0">>]

\* The body of Valid4ByteASN after the type assertion.
Valid4ByteASNErrors(value) ==
    LET asn == ParseInt(value)
    IN  IF ~asn.ok THEN <<"must be a 64-bit integer">>
        ELSE IF asn.neg \/ DecGreater(asn.mag, MaxASN)
        THEN <<"must be in the range 0 to 4294967295">>
        ELSE <<>>

\* The body of ValidAccountID after the type assertion: ^\d{12}$
ValidAccountIDErrors(value) ==
    IF ~(Len(value) = 12 /\ \A i \in 1..12 : value[i] \in Digit)
    THEN <<"doesn't look like AWS Account ID (exactly 12 digits)">>
    ELSE <<>>

\* The limits of ValidKMSKeyID.
MinKMSKeyIDLen == 1
MaxKMSKeyIDLen == 2048

\* The body of ValidKMSKeyID after the type assertion.
ValidKMSKeyIDErrors(value) ==
    IF Len(value) < MinKMSKeyIDLen THEN <<"cannot be shorter than 1 character">>
    ELSE IF Len(value) > MaxKMSKeyIDLen THEN <<"cannot be longer than 2048 characters">>
    ELSE <<>>

\* The body of ValidRegionName after the type assertion.
ValidRegionNameErrors(value) ==
    IF value = <<>> THEN <<>>
    ELSE IF ~regionRegexp(value) THEN <<"region name is malformed">>
    ELSE <<>>

\* A legacy validator that asserts value := v.(string) and then runs body.
StringValidator(f, bodyErrors) ==
    \/ AssertStringPanics(f)
    \/ /\ fn = f /\ pc = "start"
       /\ IsString(arg)
       /\ errors' = errors \o bodyErrors
       /\ pc' = "done"
       /\ UNCHANGED <<ws, panicked>>
       /\ LegacyUnchanged

Valid4ByteASN == StringValidator("Valid4ByteASN", Valid4ByteASNErrors(arg.val))
ValidAccountID == StringValidator("ValidAccountID", ValidAccountIDErrors(arg.val))
ValidKMSKeyID == StringValidator("ValidKMSKeyID", ValidKMSKeyIDErrors(arg.val))
ValidRegionName == StringValidator("ValidRegionName", ValidRegionNameErrors(arg.val))

\* The validator FloatGreaterThan(threshold) returns: v, ok := i.(float64);
\* one error when !ok, one when v <= threshold.  A float64 is represented
\* by an integer: only its order with the threshold is used.
FloatGreaterThan ==
    /\ fn = "FloatGreaterThan" /\ pc = "start"
    /\ errors' = IF arg.type # "float64" THEN Append(errors, "expected type to be float")
                 ELSE IF arg.val <= threshold THEN Append(errors, "expected to be greater than")
                 ELSE errors
    /\ pc' = "done"
    /\ UNCHANGED <<ws, panicked>>
    /\ LegacyUnchanged

Float(x) == [type |-> "float64", val |-> x]

ASNTexts ==
    {<<>>, <<"0">>, <<"6", "5", "0", "0", "0">>, <<"-", "1">>, <<"+", "5">>, <<"-", "0">>,
     MaxASN, <<"4", "2", "9", "4", "9", "6", "7", "2", "9", "6">>, <<"a", "b", "c">>,
     Cutoff63, <<"-">> \o Cutoff63, <<"0", "0">> \o MaxASN}

KMSKeyIDTexts == {[i \in 1..n |-> "k"] : n \in {0, 1, MaxKMSKeyIDLen, MaxKMSKeyIDLen + 1}}

\* The values handed to each of these validators.
LegacyArgs(f) ==
    CASE f = "Valid4ByteASN" -> {Str(s) : s \in ASNTexts} \cup {NotAString}
      [] f = "ValidAccountID" -> {Str(s) : s \in ArnAccounts} \cup {NotAString}
      [] f = "ValidKMSKeyID" -> {Str(s) : s \in KMSKeyIDTexts} \cup {NotAString}
      [] f = "ValidRegionName" -> {Str(s) : s \in ArnRegions} \cup {NotAString}
      [] f = "FloatGreaterThan" -> {Float(x) : x \in -1..2} \cup {NotAString, Str(<<"1">>)}

OtherLegacyInit ==
    /\ fn \in {"Valid4ByteASN", "ValidAccountID", "ValidKMSKeyID", "ValidRegionName",
               "FloatGreaterThan"}
    /\ arg \in LegacyArgs(fn)
    /\ key = <<"k">>
    /\ fs = <<>>
    /\ pc = "start"
    /\ idx = 1
    /\ calls = <<>>
    /\ results = <<>>
    /\ ws = <<>> /\ errors = <<>> /\ parsedARN = NoARN /\ err = NoError
    /\ threshold \in IF fn = "FloatGreaterThan" THEN {0, 1} ELSE {0}
    /\ panicked = FALSE

LegacyInit == OtherLegacyInit \/ ARNInit \/ DurationInit \/ NameInit

LegacyNext ==
    \/ Valid4ByteASN
    \/ ValidAccountID
    \/ ValidKMSKeyID
    \/ ValidRegionName
    \/ FloatGreaterThan
    \/ ValidDuration
    \/ ValidLaunchTemplateName
    \/ ARNNext

SpecLegacy == LegacyInit /\ [][LegacyNext]_vars

\* The value of the call is not of the primitive type its validator expects.
TypeMismatch ==
    IF fn = "FloatGreaterThan" THEN arg.type # "float64" ELSE ~IsString(arg)

\* C5: a legacy validator given a value that is not of its expected
\* primitive type returns exactly one error, and never panics.
C5_TypeMismatchOneError ==
    /\ ~panicked
    /\ (TypeMismatch /\ pc # "start") => (pc = "done" /\ Len(errors) = 1)

====
